---- MODULE Spec2Model ----
(***************************************************************************)
(* doorways: the launch-status tracking engine (Doorways::act,             *)
(* Doorways::start_status_thread, ChildMonitor::process,                   *)
(* ChildMonitor::poll_active, steam_status, Game::launch), the catalog     *)
(* merge (VecGame::merge_with) and the flow of main (load, refresh from    *)
(* the providers, sort, load_imgs, grid, save) of src/src/main.rs.         *)
(*                                                                         *)
(* Three specifications share the variables: Spec (a launcher run inside   *)
(* grid.run), MergeSpec (one call of merge_with) and MainSpec (main from   *)
(* its first statement to its return).                                     *)
(*                                                                         *)
(* Conventions.  Option<T> is a sequence of length at most one: None is    *)
(* <<>> and Some(x) is <<x>>.  A Vec is a sequence; the code's index i     *)
(* (0-based) is position i + 1 here.  A HashMap is a function whose        *)
(* DOMAIN is its key set.                                                  *)
(***************************************************************************)
EXTENDS Naturals, Integers, Sequences, FiniteSets, TLC

VARIABLES
    games,           \* Doorways.games : Vec<Game>
    mself,           \* merge_with: the receiver `self` of the last call
    other,           \* merge_with: the argument `other` of the last call
    mergepc,         \* "init" before the call of merge_with, "merged" after it
    status,          \* Doorways.status : Arc<Mutex<HashMap<usize, LaunchStatus>>>
    status_channel,  \* Doorways.status_channel : Option<mpsc::Sender<..>>
    chan,            \* the messages in flight on the mpsc channel, oldest first
    active,          \* ChildMonitor.active : HashMap<usize, Launched>
    procs,           \* the OS processes spawned so far (a Child is an index in it)
    fgpc,            \* the foreground thread's position in Doorways::act
    fgI,             \* act: the argument i (0 when no call is in progress)
    result,          \* act: the local `result` of self.games[i].launch()
    mpc,             \* the monitor thread's position in process / poll_active
    iter,            \* poll_active: the keys self.active.iter_mut() has yet to yield
    cur,             \* poll_active: the locals (i, try_wait's result, status) of the entry at hand
    to_remove,       \* poll_active: the local Vec to_remove
    alive,           \* FALSE once the main thread has panicked (the process is gone)
    threads,         \* the number of monitor threads thread::spawn has started
    lock,            \* the holder of the Mutex of Doorways.status: "none", "fg" or "mon"
    disk,            \* games.json: None when the file is absent, else Some(catalog)
    sources,         \* what each provider's load yields: an error or a list of games
    matches,         \* main: the command line (--refresh, the launcher subcommand)
    mainpc,          \* main's position
    images           \* Doorways.images : Vec<Texture>, one id per loaded image

mergeVars == <<mself, other, mergepc>>
fgVars == <<fgpc, fgI, result>>
monVars == <<mpc, iter, cur, to_remove, active>>
launchVars == <<status, status_channel, chan, active, procs, fgpc, fgI, result,
                mpc, iter, cur, to_remove, alive, threads, lock>>
mainVars == <<disk, sources, matches, mainpc, images>>
vars == <<games, mself, other, mergepc, status, status_channel, chan, active, procs,
          fgpc, fgI, result, mpc, iter, cur, to_remove, alive, threads, lock,
          disk, sources, matches, mainpc, images>>

None == <<>>
Some(x) == <<x>>

(***************************************************************************)
(* Game (main.rs 57-74).  A provider's record is written by from_steam,    *)
(* from_twitch or from_epic: SourceData gives the fields a provider fills, *)
(* UserData the fields merge_with never reads from `orig`.                 *)
(***************************************************************************)
MkGame(id, src, usr) ==
    [id |-> id,
     title |-> src.title,
     image_path |-> usr.image_path,
     image_src |-> src.image_src,
     installed |-> src.installed,
     kids |-> usr.kids,
     hidden |-> usr.hidden,
     players |-> usr.players,
     launch_url |-> src.launch_url,
     install_directory |-> src.install_directory,
     working_subdir_override |-> src.working_subdir_override,
     command |-> src.command,
     args |-> src.args,
     launcher |-> src.launcher]

\* The shape from_steam gives a record (main.rs 173-188).
SteamData(title) ==
    [title |-> title, image_src |-> <<"Path", "logo.png">>, installed |-> FALSE,
     launch_url |-> Some("steam://rungameid/7"), install_directory |-> None,
     working_subdir_override |-> None, command |-> None, args |-> None,
     launcher |-> "Steam"]

\* The shape from_epic gives a record (main.rs 198-213).
EpicData(title) ==
    [title |-> title, image_src |-> <<"Url", "http://epic/i.png">>, installed |-> TRUE,
     launch_url |-> None, install_directory |-> Some("C:/epic"),
     working_subdir_override |-> None, command |-> Some("game.exe"), args |-> None,
     launcher |-> "Epic"]

\* The shape from_twitch gives a record (main.rs 148-163).
TwitchData(title) ==
    [title |-> title, image_src |-> <<"Url", "http://twitch/i.png">>, installed |-> FALSE,
     launch_url |-> None, install_directory |-> Some("C:/twitch"),
     working_subdir_override |-> Some("bin"), command |-> Some("play.exe"),
     args |-> Some(<<"-fullscreen">>), launcher |-> "Twitch"]

\* A record read from games.json with no launch descriptor at all
\* (launcher is #[serde(default)]: Unknown).
BareData(title) ==
    [title |-> title, image_src |-> <<"Path", "none.png">>, installed |-> TRUE,
     launch_url |-> None, install_directory |-> None,
     working_subdir_override |-> None, command |-> None, args |-> None,
     launcher |-> "Unknown"]

\* kids / hidden / players / image_path as every provider writes them.
Fresh == [kids |-> None, hidden |-> Some(FALSE), players |-> None, image_path |-> None]
\* ... and as the user's edits and an earlier session leave them.
KidsYes == [kids |-> Some(TRUE), hidden |-> Some(FALSE), players |-> Some(2),
            image_path |-> Some("a.png")]
KidsNoHidden == [kids |-> Some(FALSE), hidden |-> Some(TRUE), players |-> None,
                 image_path |-> None]
Reset == [kids |-> None, hidden |-> None, players |-> None, image_path |-> None]

(***************************************************************************)
(* VecGame::merge_with (main.rs 221-248).                                  *)
(***************************************************************************)
\* UpdateFrom that copies hidden from the provider's record as well.
UpdateFromHiddenBad(custom, orig) ==
    [custom EXCEPT !.title = orig.title,
                   !.image_src = orig.image_src,
                   !.install_directory = orig.install_directory,
                   !.working_subdir_override = orig.working_subdir_override,
                   !.installed = orig.installed,
                   !.command = orig.command,
                   !.args = orig.args,
                   !.launch_url = orig.launch_url,
                   !.launcher = orig.launcher,
                   !.hidden = orig.hidden]

\* UpdateFrom that copies kids from the provider's record as well.
UpdateFromBad(custom, orig) ==
    [custom EXCEPT !.title = orig.title,
                   !.image_src = orig.image_src,
                   !.install_directory = orig.install_directory,
                   !.working_subdir_override = orig.working_subdir_override,
                   !.installed = orig.installed,
                   !.command = orig.command,
                   !.args = orig.args,
                   !.launch_url = orig.launch_url,
                   !.launcher = orig.launcher,
                   !.kids = orig.kids]

\* Lines 229-237: the fields of `custom` overwritten from `orig`.
UpdateFrom(custom, orig) ==
    [custom EXCEPT !.title = orig.title,
                   !.image_src = orig.image_src,
                   !.install_directory = orig.install_directory,
                   !.working_subdir_override = orig.working_subdir_override,
                   !.installed = orig.installed,
                   !.command = orig.command,
                   !.args = orig.args,
                   !.launch_url = orig.launch_url,
                   !.launcher = orig.launcher]

\* UpdateMatches that leaves the inner loop at the first match.
UpdateMatchesBad(self, orig) ==
    [k \in 1..Len(self) |->
        IF orig.id = self[k].id /\ ~(\E n \in 1..(k - 1) : orig.id = self[n].id)
        THEN UpdateFrom(self[k], orig) ELSE self[k]]

\* Lines 226-239: the inner loop over self.iter_mut() for one `orig`.
UpdateMatches(self, orig) ==
    [k \in 1..Len(self) |->
        IF orig.id = self[k].id THEN UpdateFrom(self[k], orig) ELSE self[k]]

\* Found that compares `orig` with the first entry of self only.
FoundFirstBad(self, orig) == self # <<>> /\ orig.id = self[1].id

\* Lines 225-228: `found` after the inner loop.
Found(self, orig) == \E k \in 1..Len(self) : orig.id = self[k].id

\* PushToAdd that inserts at the front of to_add.
PushToAddBad(self, to_add, orig) ==
    IF Found(self, orig) THEN to_add ELSE <<orig>> \o to_add

\* PushToAdd without the test of `found` at line 240: every `orig` is added.
PushToAddAllBad(self, to_add, orig) == Append(to_add, orig)

\* Lines 240-243: to_add after one `orig`.
PushToAdd(self, to_add, orig) ==
    IF Found(self, orig) THEN to_add ELSE Append(to_add, orig)

\* Line 245: self.extend(to_add).
Extend(self, to_add) == self \o to_add

\* Lines 224-246: the outer loop over other.into_iter(), then the extend.
RECURSIVE MergeLoop(_, _, _)
MergeLoop(self, rest, to_add) ==
    IF rest = <<>>
    THEN Extend(self, to_add)
    ELSE MergeLoop(UpdateMatches(self, Head(rest)), Tail(rest),
                   PushToAdd(self, to_add, Head(rest)))

\* merge_with that drops the entries no record of `other` matches.
merge_withBad(self, oth) ==
    SelectSeq(MergeLoop(self, oth, <<>>),
              LAMBDA g : \E n \in 1..Len(oth) : oth[n].id = g.id)

merge_with(self, oth) == MergeLoop(self, oth, <<>>)

(***************************************************************************)
(* LaunchStatus (main.rs 258-264), Launched (405-409), HashMap.            *)
(***************************************************************************)
St(tag) == [tag |-> tag, code |-> 0, reason |-> ""]
Starting == St("Starting")
Running == St("Running")
Success == St("Success")
FailedToLaunch(err) == [tag |-> "FailedToLaunch", code |-> 0, reason |-> err]
Error(code) == [tag |-> "Error", code |-> code, reason |-> ""]

Launched(child, launcher, id) == [child |-> child, launcher |-> launcher, id |-> id]

\* RemoveAll that removes nothing: the loop of lines 481-483 left out.
RemoveAllBad(m, ks) == m

\* HashMap::new(), HashMap::insert, HashMap::remove for each key of a list.
EmptyMap == <<>>
Insert(m, k, v) == [x \in (DOMAIN m) \cup {k} |-> IF x = k THEN v ELSE m[x]]
RemoveAll(m, ks) == [x \in (DOMAIN m) \ {ks[n] : n \in 1..Len(ks)} |-> m[x]]

(***************************************************************************)
(* Bounds.                                                                 *)
(***************************************************************************)
\* act is not called once this many processes have been spawned.
MaxProcs == 3
\* The exit codes a spawned process may end with.
ExitCodes == {0, 3}
\* merge_with: the longest `self` and the longest `other`.
MaxExisting == 2
MaxIncoming == 3

SeqsUpTo(S, n) == UNION {[1..k -> S] : k \in 0..n}

\* The catalog of the launcher runs, in title order as Doorways::load leaves it:
\* a Steam title (launch URL), an Epic title (directory + command) and a record
\* with no launch target.
LaunchCatalog ==
    <<MkGame("a", SteamData("Brand New"), Fresh),
      MkGame("b", EpicData("New"), KidsYes),
      MkGame("c", BareData("Old"), Fresh)>>

\* The catalogs and provider lists merge_with is applied to.
Ids == {"a", "b"}
ExistingGames ==
    {MkGame(id, p[1], p[2]) : id \in Ids,
        p \in {<<SteamData("Old"), KidsYes>>, <<EpicData("New"), KidsNoHidden>>,
               <<TwitchData("Brand New"), Reset>>}}
IncomingGames ==
    {MkGame(id, p[1], p[2]) : id \in Ids,
        p \in {<<EpicData("New"), Fresh>>, <<TwitchData("Brand New"), Fresh>>,
               <<BareData("Old"), KidsNoHidden>>}}

(***************************************************************************)
(* Game::launch (main.rs 101-142).                                         *)
(***************************************************************************)
HasCommand(g) == g.install_directory # None /\ g.command # None
HasUrl(g) == g.launch_url # None
HasTarget(g) == HasCommand(g) \/ HasUrl(g)

\* The Command that launch() builds: program, working directory, arguments.
\* A path join is the sequence of its components.
LaunchCommand(g) ==
    IF HasCommand(g)
    THEN [program |-> <<g.install_directory[1], g.command[1]>>,
          current_dir |-> IF g.working_subdir_override # None
                          THEN Some(<<g.install_directory[1], g.working_subdir_override[1]>>)
                          ELSE Some(<<g.install_directory[1]>>),
          args |-> IF g.args # None THEN g.args[1] ELSE <<>>]
    ELSE [program |-> <<"cmd">>, current_dir |-> None,
          args |-> <<"/C", "start", g.launch_url[1]>>]

NewProc(g) == [command |-> LaunchCommand(g), state |-> "running", code |-> 0]

NoResult == [ok |-> FALSE, child |-> 0, err |-> ""]
Ok(child) == [ok |-> TRUE, child |-> child, err |-> ""]
Err(msg) == [ok |-> FALSE, child |-> 0, err |-> msg]

NoCur == [i |-> 0, wait |-> None, probe |-> "", st |-> Starting]

\* What a provider's load yields (main.rs 818-829): an error, or its games.
Failed == [ok |-> FALSE, games |-> <<>>]
Loaded(gs) == [ok |-> TRUE, games |-> gs]

\* A machine with none of the providers' files: every load fails.
NoSources == [Steam |-> Failed, Twitch |-> Failed, Epic |-> Failed]

\* main before its first statement, run with no argument.
MainIdle ==
    /\ disk = None
    /\ sources = NoSources
    /\ matches = [refresh |-> FALSE, launcher |-> FALSE]
    /\ mainpc = "start"
    /\ images = <<>>

\* main inside grid.run (line 896) of a launcher run without --refresh:
\* games.json has been loaded and load_imgs has cached one image per game.
MainAtGrid ==
    /\ disk = Some(LaunchCatalog)
    /\ sources = NoSources
    /\ matches = [refresh |-> FALSE, launcher |-> TRUE]
    /\ mainpc = "grid"
    /\ images = [k \in 1..Len(LaunchCatalog) |-> Some(LaunchCatalog[k].id)]

(***************************************************************************)
(* The initial state: Doorways::new (main.rs 283-300), no monitor yet.     *)
(***************************************************************************)
LaunchIdle ==
    /\ status = EmptyMap
    /\ status_channel = "None"
    /\ chan = <<>>
    /\ active = EmptyMap
    /\ procs = <<>>
    /\ fgpc = "idle"
    /\ fgI = 0
    /\ result = NoResult
    /\ mpc = "none"
    /\ iter = {}
    /\ cur = NoCur
    /\ to_remove = <<>>
    /\ alive = TRUE
    /\ threads = 0
    /\ lock = "none"

Init ==
    /\ games = LaunchCatalog
    /\ mself = <<>>
    /\ other = <<>>
    /\ mergepc = "init"
    /\ LaunchIdle
    /\ MainAtGrid

(***************************************************************************)
(* The foreground thread: Doorways::act (main.rs 537-580).                 *)
(***************************************************************************)
\* The grid calls act(i) for a tile of the catalog.
ActCall(i) ==
    /\ alive
    /\ fgpc = "idle"
    /\ i \in 1..Len(games)
    /\ Len(procs) < MaxProcs
    /\ fgpc' = "act"
    /\ fgI' = i
    /\ UNCHANGED <<games, mergeVars, mainVars, threads, lock, status, status_channel, chan, active, procs,
                   result, mpc, iter, cur, to_remove, alive>>

\* IsBusy with Starting left out of the statuses that stop a second launch.
IsBusyStartingBad(m, i) == i \in DOMAIN m /\ m[i].tag \in {"Running"}

\* IsBusy with Running left out of the statuses that stop a second launch.
IsBusyBad(m, i) == i \in DOMAIN m /\ m[i].tag \in {"Starting"}

\* Line 543: the statuses for which act returns at once.
IsBusy(m, i) == i \in DOMAIN m /\ m[i].tag \in {"Starting", "Running"}

\* Line 539: self.status.lock() returns once no thread holds the Mutex.
ActLock ==
    /\ alive
    /\ fgpc = "act"
    /\ lock = "none"
    /\ lock' = "fg"
    /\ UNCHANGED <<games, mergeVars, mainVars, threads, status, status_channel, chan, active,
                   procs, fgVars, mpc, iter, cur, to_remove, alive>>

\* ActCheck without the block of lines 538-550: the guard lives on after the
\* insert of Starting, to the end of act.
ActCheckBad ==
    /\ alive
    /\ fgpc = "act"
    /\ lock = "fg"
    /\ IF IsBusy(status, fgI)
       THEN /\ fgpc' = "idle"
            /\ fgI' = 0
            /\ lock' = "none"
            /\ UNCHANGED status
       ELSE /\ status' = Insert(status, fgI, Starting)
            /\ fgpc' = "start_thread"
            /\ UNCHANGED <<fgI, lock>>
    /\ UNCHANGED <<games, mergeVars, mainVars, threads, status_channel, chan, active, procs,
                   result, mpc, iter, cur, to_remove, alive>>

\* Lines 538-550: under the lock, return if Starting or Running, else insert
\* Starting; the guard is dropped at the return and at the end of the block.
ActCheck ==
    /\ alive
    /\ fgpc = "act"
    /\ lock = "fg"
    /\ lock' = "none"
    /\ IF IsBusy(status, fgI)
       THEN /\ fgpc' = "idle"
            /\ fgI' = 0
            /\ UNCHANGED status
       ELSE /\ status' = Insert(status, fgI, Starting)
            /\ fgpc' = "start_thread"
            /\ UNCHANGED fgI
    /\ UNCHANGED <<games, mergeVars, mainVars, threads, status_channel, chan, active, procs,
                   result, mpc, iter, cur, to_remove, alive>>

\* StartStatusThread without the test of status_channel at line 393: every
\* launch creates a channel and spawns a monitor.
StartStatusThreadBad ==
    /\ alive
    /\ fgpc = "start_thread"
    /\ status_channel' = "Some"
    /\ chan' = <<>>
    /\ mpc' = "recv"
    /\ threads' = threads + 1
    /\ fgpc' = "launch"
    /\ UNCHANGED <<games, mergeVars, mainVars, lock, status, active, procs, fgI, result,
                   iter, cur, to_remove, alive>>

\* Line 552 and start_status_thread (392-403): the channel and the monitor
\* thread are created unless status_channel is Some.
StartStatusThread ==
    /\ alive
    /\ fgpc = "start_thread"
    /\ IF status_channel = "Some"
       THEN UNCHANGED <<status_channel, chan, mpc, threads>>
       ELSE /\ status_channel' = "Some"
            /\ chan' = <<>>
            /\ mpc' = "recv"
            /\ threads' = threads + 1
    /\ fgpc' = "launch"
    /\ UNCHANGED <<games, mergeVars, mainVars, lock, status, active, procs, fgI, result,
                   iter, cur, to_remove, alive>>

\* Line 556, launch() returning Ok(child): the OS created the process.
LaunchOk ==
    /\ alive
    /\ fgpc = "launch"
    /\ HasTarget(games[fgI])
    /\ procs' = Append(procs, NewProc(games[fgI]))
    /\ result' = Ok(Len(procs) + 1)
    /\ fgpc' = "send"
    /\ UNCHANGED <<games, mergeVars, mainVars, threads, lock, status, status_channel, chan, active, fgI,
                   mpc, iter, cur, to_remove, alive>>

\* Line 556, launch() returning Err: no target (line 141), or spawn() failed
\* (lines 134, 139).
LaunchErr ==
    /\ alive
    /\ fgpc = "launch"
    /\ result' = IF HasTarget(games[fgI]) THEN Err("spawn") ELSE Err("Missing launch_url or command")
    /\ fgpc' = "fail"
    /\ UNCHANGED <<games, mergeVars, mainVars, threads, lock, status, status_channel, chan, active, procs, fgI,
                   mpc, iter, cur, to_remove, alive>>

\* Lines 558-568: tx.send of (i, Launched).  The send fails only when the
\* receiver is gone (the monitor thread has unwound), and then act panics on
\* the main thread: the process ends.
Send ==
    /\ alive
    /\ fgpc = "send"
    /\ IF mpc = "panicked"
       THEN /\ alive' = FALSE
            /\ UNCHANGED chan
       ELSE /\ chan' = Append(chan, <<fgI, Launched(result.child, games[fgI].launcher,
                                                    games[fgI].id)>>)
            /\ UNCHANGED alive
    /\ fgpc' = "idle"
    /\ fgI' = 0
    /\ result' = NoResult
    /\ UNCHANGED <<games, mergeVars, mainVars, threads, lock, status, status_channel, active, procs,
                   mpc, iter, cur, to_remove>>

\* FailWrite with the status write left out: the entry stays Starting.
FailWriteBad ==
    /\ alive
    /\ fgpc = "fail"
    /\ lock = "fg"
    /\ lock' = "none"
    /\ fgpc' = "idle"
    /\ fgI' = 0
    /\ result' = NoResult
    /\ UNCHANGED <<games, mergeVars, mainVars, threads, status, status_channel, chan, active, procs,
                   mpc, iter, cur, to_remove, alive>>

\* Line 572: self.status.lock() returns once no thread holds the Mutex.
FailLock ==
    /\ alive
    /\ fgpc = "fail"
    /\ lock = "none"
    /\ lock' = "fg"
    /\ UNCHANGED <<games, mergeVars, mainVars, threads, status, status_channel, chan, active,
                   procs, fgVars, mpc, iter, cur, to_remove, alive>>

\* Lines 570-575: insert FailedToLaunch(err) under the lock; the guard is a
\* temporary dropped at the end of the statement.
FailWrite ==
    /\ alive
    /\ fgpc = "fail"
    /\ lock = "fg"
    /\ lock' = "none"
    /\ status' = Insert(status, fgI, FailedToLaunch(result.err))
    /\ fgpc' = "idle"
    /\ fgI' = 0
    /\ result' = NoResult
    /\ UNCHANGED <<games, mergeVars, mainVars, threads, status_channel, chan, active, procs,
                   mpc, iter, cur, to_remove, alive>>

(***************************************************************************)
(* The foreground thread: TileHandler::draw_tile (main.rs 676-757).        *)
(***************************************************************************)
\* Line 699: the grid draws tile i; self.status.lock() returns once no
\* thread holds the Mutex.
DrawLock(i) ==
    /\ alive
    /\ fgpc = "idle"
    /\ i \in 1..Len(games)
    /\ lock = "none"
    /\ lock' = "fg"
    /\ fgpc' = "draw"
    /\ fgI' = i
    /\ UNCHANGED <<games, mergeVars, mainVars, threads, status, status_channel, chan, active,
                   procs, result, mpc, iter, cur, to_remove, alive>>

\* Lines 700-757: statuses.get_mut(&i) reads the status of the tile under
\* the lock, the guard is dropped at the return (702) or at the end of the
\* block (716), and the overlay is painted from the locals (color, gray_out).
DrawRead ==
    /\ alive
    /\ fgpc = "draw"
    /\ lock = "fg"
    /\ lock' = "none"
    /\ fgpc' = "idle"
    /\ fgI' = 0
    /\ UNCHANGED <<games, mergeVars, mainVars, threads, status, status_channel, chan, active,
                   procs, result, mpc, iter, cur, to_remove, alive>>

(***************************************************************************)
(* The monitor thread: ChildMonitor::process (main.rs 486-502) and         *)
(* poll_active (444-484).                                                  *)
(***************************************************************************)
\* Lines 488, 497-499: try_recv yields a message; insert it in active.
Recv ==
    /\ alive
    /\ mpc = "recv"
    /\ chan # <<>>
    /\ active' = Insert(active, Head(chan)[1], Head(chan)[2])
    /\ chan' = Tail(chan)
    /\ UNCHANGED <<games, mergeVars, mainVars, threads, lock, status, status_channel, procs, fgVars,
                   mpc, iter, cur, to_remove, alive>>

\* Lines 488-490, 445-446: try_recv is Empty; poll_active starts a pass.
RecvEmpty ==
    /\ alive
    /\ mpc = "recv"
    /\ chan = <<>>
    /\ to_remove' = <<>>
    /\ iter' = DOMAIN active
    /\ mpc' = "poll"
    /\ UNCHANGED <<games, mergeVars, mainVars, threads, lock, status, status_channel, chan, active, procs,
                   fgVars, cur, alive>>

\* What the registry holds under Software\Valve\Steam\Apps\<id> when it is
\* read: Running = 1, Running = 0, or no readable key or value.
RegistryStates == {"1", "0", "unreadable"}

\* steam_status (417-430): an error when the key or the value cannot be read,
\* Ok(Running) when Running is 1, Ok(Success) otherwise.
\* (steam_statusBad: the test of the Running value inverted.)
steam_statusBad(reg) ==
    IF reg = "unreadable" THEN Err("registry")
    ELSE [ok |-> TRUE, status |-> IF reg = "0" THEN Running ELSE Success]

steam_status(reg) ==
    IF reg = "unreadable" THEN Err("registry")
    ELSE [ok |-> TRUE, status |-> IF reg = "1" THEN Running ELSE Success]

\* Lines 449-463: the status computed for a child that has exited with `code`
\* (exit_status.success() is code = 0), with the registry state the probe
\* read when it was called ("" when it was not).
\* (ExitedStatusBad: the launcher tested before exit_status.success(), so that a
\* Steam child is probed whatever its exit code.)
ExitedStatusBad(launcher, code, reg) ==
    IF launcher = "Steam"
    THEN [probe |-> reg,
          st |-> IF steam_status(reg).ok THEN steam_status(reg).status ELSE Error(1)]
    ELSE IF code = 0 THEN [probe |-> "", st |-> Success]
         ELSE [probe |-> "", st |-> Error(code)]

\* (ExitedStatusProbeBad: a probe that fails is taken for a title that is over.)
ExitedStatusProbeBad(launcher, code, reg) ==
    IF code = 0
    THEN IF launcher = "Steam"
         THEN [probe |-> reg,
               st |-> IF steam_status(reg).ok THEN steam_status(reg).status ELSE Success]
         ELSE [probe |-> "", st |-> Success]
    ELSE [probe |-> "", st |-> Error(code)]

\* (ExitedStatusAllBad: the test of the launcher at line 450 left out, so
\* that every child that exits successfully is probed.)
ExitedStatusAllBad(launcher, code, reg) ==
    IF code = 0
    THEN [probe |-> reg,
          st |-> IF steam_status(reg).ok THEN steam_status(reg).status ELSE Error(1)]
    ELSE [probe |-> "", st |-> Error(code)]

\* (ExitedStatusFailBad: an unsuccessful exit reported as FailedToLaunch.)
ExitedStatusFailBad(launcher, code, reg) ==
    IF code = 0
    THEN IF launcher = "Steam"
         THEN [probe |-> reg,
               st |-> IF steam_status(reg).ok THEN steam_status(reg).status ELSE Error(1)]
         ELSE [probe |-> "", st |-> Success]
    ELSE [probe |-> "", st |-> FailedToLaunch("exit")]

ExitedStatus(launcher, code, reg) ==
    IF code = 0
    THEN IF launcher = "Steam"
         THEN [probe |-> reg,
               st |-> IF steam_status(reg).ok THEN steam_status(reg).status ELSE Error(1)]
         ELSE [probe |-> "", st |-> Success]
    ELSE [probe |-> "", st |-> Error(code)]

\* PushRemove that pushes for Error only: a handle whose status is Success
\* stays in active and is polled again.
PushRemoveErrBad(tr, i, st) == IF st.tag = "Error" THEN Append(tr, i) ELSE tr

\* PushRemove that never pushes: no handle is ever taken out of active.
PushRemoveBad(tr, i, st) == tr

\* Lines 464-469: to_remove after the entry.
PushRemove(tr, i, st) == IF st.tag = "Running" THEN tr ELSE Append(tr, i)

\* PollWait with a timeout: a process found running on a pass after the one
\* that wrote Running is given up as Error(1) and listed for removal.
PollWaitTimeoutBad(i) ==
    /\ alive
    /\ mpc = "poll"
    /\ i \in iter
    /\ LET p == procs[active[i].child] IN
         IF p.state = "running"
         THEN IF i \in DOMAIN status /\ status[i].tag = "Running"
              THEN /\ cur' = [i |-> i, wait |-> None, probe |-> "", st |-> Error(1)]
                   /\ to_remove' = Append(to_remove, i)
              ELSE /\ cur' = [i |-> i, wait |-> None, probe |-> "", st |-> Running]
                   /\ UNCHANGED to_remove
         ELSE \E reg \in RegistryStates :
                LET e == ExitedStatus(active[i].launcher, p.code, reg) IN
                  /\ cur' = [i |-> i, wait |-> Some(p.code), probe |-> e.probe, st |-> e.st]
                  /\ to_remove' = PushRemove(to_remove, i, e.st)
    /\ mpc' = "write"
    /\ UNCHANGED <<games, mergeVars, mainVars, threads, lock, status, status_channel, chan, active, procs,
                   fgVars, iter, alive>>

\* Lines 446-449, 472: try_wait answers for the next entry of the iteration
\* (a HashMap yields its entries in any order): Ok(None) while the process
\* runs, Ok(Some(exit_status)) once it has exited, and then the status is
\* computed, probing the registry for a Steam title.
PollWait(i) ==
    /\ alive
    /\ mpc = "poll"
    /\ i \in iter
    /\ LET p == procs[active[i].child] IN
         IF p.state = "running"
         THEN /\ cur' = [i |-> i, wait |-> None, probe |-> "", st |-> Running]
              /\ UNCHANGED to_remove
         ELSE \E reg \in RegistryStates :
                LET e == ExitedStatus(active[i].launcher, p.code, reg) IN
                  /\ cur' = [i |-> i, wait |-> Some(p.code), probe |-> e.probe, st |-> e.st]
                  /\ to_remove' = PushRemove(to_remove, i, e.st)
    /\ mpc' = "write"
    /\ UNCHANGED <<games, mergeVars, mainVars, threads, lock, status, status_channel, chan, active, procs,
                   fgVars, iter, alive>>

\* Line 478: try_wait fails and the monitor thread panics.  The thread
\* unwinds: its ChildMonitor (active, rx) is dropped and the messages still
\* in the channel with it.  The main thread keeps running.
PollWaitErr(i) ==
    /\ alive
    /\ mpc = "poll"
    /\ i \in iter
    /\ mpc' = "panicked"
    /\ active' = EmptyMap
    /\ chan' = <<>>
    /\ iter' = {}
    /\ cur' = NoCur
    /\ to_remove' = <<>>
    /\ UNCHANGED <<games, mergeVars, mainVars, threads, lock, status, status_channel, procs, fgVars, alive>>

\* PollWrite keyed by the child instead of the catalog index.
PollWriteBad ==
    /\ alive
    /\ mpc = "write"
    /\ lock = "mon"
    /\ lock' = "none"
    /\ status' = Insert(status, active[cur.i].child, cur.st)
    /\ iter' = iter \ {cur.i}
    /\ cur' = NoCur
    /\ mpc' = "poll"
    /\ UNCHANGED <<games, mergeVars, mainVars, threads, status_channel, chan, active, procs,
                   fgVars, to_remove, alive>>

\* Lines 470, 474: self.status.lock() returns once no thread holds the Mutex.
PollLock ==
    /\ alive
    /\ mpc = "write"
    /\ lock = "none"
    /\ lock' = "mon"
    /\ UNCHANGED <<games, mergeVars, mainVars, threads, status, status_channel, chan, active,
                   procs, fgVars, mpc, iter, cur, to_remove, alive>>

\* Lines 470, 473-476: insert the entry's status under the lock; the guard is
\* a temporary dropped at the end of the statement.
PollWrite ==
    /\ alive
    /\ mpc = "write"
    /\ lock = "mon"
    /\ lock' = "none"
    /\ status' = Insert(status, cur.i, cur.st)
    /\ iter' = iter \ {cur.i}
    /\ cur' = NoCur
    /\ mpc' = "poll"
    /\ UNCHANGED <<games, mergeVars, mainVars, threads, status_channel, chan, active, procs,
                   fgVars, to_remove, alive>>

\* Lines 481-483 and 491: the iteration is over; remove the entries of
\* to_remove from active, sleep, and go round the loop of process again.
PollRemove ==
    /\ alive
    /\ mpc = "poll"
    /\ iter = {}
    /\ active' = RemoveAll(active, to_remove)
    /\ to_remove' = <<>>
    /\ mpc' = "recv"
    /\ UNCHANGED <<games, mergeVars, mainVars, threads, lock, status, status_channel, chan, procs,
                   fgVars, iter, cur, alive>>

(***************************************************************************)
(* The environment: a spawned process exits.                               *)
(***************************************************************************)
ProcExit(p, code) ==
    /\ alive
    /\ p \in 1..Len(procs)
    /\ procs[p].state = "running"
    /\ procs' = [procs EXCEPT ![p].state = "exited", ![p].code = code]
    /\ UNCHANGED <<games, mergeVars, mainVars, threads, lock, status, status_channel, chan, active,
                   fgVars, mpc, iter, cur, to_remove, alive>>

Next ==
    \/ \E i \in 1..Len(LaunchCatalog) : ActCall(i)
    \/ ActLock
    \/ ActCheck
    \/ StartStatusThread
    \/ LaunchOk
    \/ LaunchErr
    \/ Send
    \/ FailLock
    \/ FailWrite
    \/ \E i \in 1..Len(LaunchCatalog) : DrawLock(i)
    \/ DrawRead
    \/ Recv
    \/ RecvEmpty
    \/ \E i \in 1..Len(LaunchCatalog) : PollWait(i)
    \/ \E i \in 1..Len(LaunchCatalog) : PollWaitErr(i)
    \/ PollLock
    \/ PollWrite
    \/ PollRemove
    \/ \E p \in 1..MaxProcs, code \in ExitCodes : ProcExit(p, code)

Spec == Init /\ [][Next]_vars

(***************************************************************************)
(* Properties of the launch engine, checked under Spec.                    *)
(***************************************************************************)
Range(seq) == {seq[n] : n \in 1..Len(seq)}
Idx == 1..Len(LaunchCatalog)
HasTag(m, i, tags) == i \in DOMAIN m /\ m[i].tag \in tags

\* The launches of entry i that are not over: the one act is making, the
\* handles waiting in the channel, and the handle the monitor tracks and has
\* not resolved to a final status.
InFlight(i) ==
    (IF fgpc \in {"start_thread", "launch", "send"} /\ fgI = i THEN 1 ELSE 0)
    + Cardinality({n \in 1..Len(chan) : chan[n][1] = i})
    + (IF i \in DOMAIN active /\ i \notin Range(to_remove) THEN 1 ELSE 0)

\* The processes spawned for entry i and still running.
LiveProcs(i) ==
    IF HasTarget(LaunchCatalog[i])
    THEN {p \in 1..Len(procs) :
            procs[p].command = LaunchCommand(LaunchCatalog[i]) /\ procs[p].state = "running"}
    ELSE {}

\* The step of act that reads the status under the lock.
C1_CheckStep ==
    (fgpc = "act" /\ fgpc' # "act") =>
        IF HasTag(status, fgI, {"Starting", "Running"})
        THEN /\ fgpc' = "idle"
             /\ UNCHANGED <<status, status_channel, chan, active, procs, mpc>>
        ELSE /\ fgI \in DOMAIN status'
             /\ status'[fgI] = Starting
             /\ \A j \in DOMAIN status' \ {fgI} : j \in DOMAIN status /\ status'[j] = status[j]
             /\ fgpc' = "start_thread"
             /\ fgI' = fgI
             /\ UNCHANGED <<chan, procs>>

\* After the check act calls launch() once: a process is created by that step
\* alone, and at most one.
C1_OneSpawn ==
    /\ (fgpc = "start_thread" /\ fgpc' # fgpc) => (fgpc' = "launch" /\ fgI' = fgI)
    /\ (fgpc = "launch" /\ fgpc' # fgpc) =>
          /\ fgI' = fgI
          /\ \/ fgpc' = "send" /\ Len(procs') = Len(procs) + 1
             \/ fgpc' = "fail" /\ procs' = procs
    /\ (fgpc \in {"send", "fail"} /\ fgpc' # fgpc) => fgpc' = "idle"
    /\ ~(fgpc = "launch" /\ fgpc' # fgpc) => Len(procs') = Len(procs)
    /\ (fgpc = "idle" /\ fgpc' # fgpc) => fgpc' \in {"act", "draw"}

\* C1: act(i) does nothing (no status write, no spawn, no handoff) when the
\* status of i read under the lock is Starting or Running; otherwise it writes
\* Starting and calls launch() exactly once.  At any time at most one launch
\* of an entry is in flight, and at most one process spawned for it is running.
C1_ActivateOnce ==
    /\ [][C1_CheckStep /\ C1_OneSpawn]_vars
    /\ [](\A i \in Idx : InFlight(i) <= 1 /\ Cardinality(LiveProcs(i)) <= 1)

\* C1 witness: a second act(i) is at its check while the first launch of i is
\* tracked by the monitor with status Running, one process spawned so far.
C1_Witness ==
    /\ fgpc = "act"
    /\ HasTag(status, fgI, {"Running"})
    /\ fgI \in DOMAIN active
    /\ Len(procs) = 1

\* The end of a pass removes exactly the entries of to_remove from active.
RemoveStep ==
    (mpc = "poll" /\ mpc' = "recv") =>
        /\ DOMAIN active' = (DOMAIN active) \ Range(to_remove)
        /\ \A i \in DOMAIN active' : active'[i] = active[i]

\* Within a pass to_remove only grows and active is not touched; a pass
\* visits every handle of active.
PassStep ==
    /\ (mpc \in {"poll", "write"} /\ mpc' \in {"poll", "write"}) =>
          /\ active' = active
          /\ Range(to_remove) \subseteq Range(to_remove')
    /\ (mpc = "recv" /\ mpc' = "poll") => (iter' = DOMAIN active /\ active' = active)

\* try_wait reports the exit of a process that has exited.
WaitStep ==
    (mpc = "poll" /\ mpc' = "write") =>
        /\ cur'.i \in iter
        /\ LET p == procs[active[cur'.i].child] IN
             cur'.wait = IF p.state = "exited" THEN Some(p.code) ELSE None

\* The steps of a pass on a Steam handle whose process exited with code 0.
C2_ProbeStep ==
    /\ (mpc = "poll" /\ mpc' = "write" /\ cur'.wait = Some(0)
            /\ active[cur'.i].launcher = "Steam") => cur'.probe \in RegistryStates
    /\ (mpc = "write" /\ mpc' # "write" /\ cur.wait = Some(0)
            /\ active[cur.i].launcher = "Steam") =>
          /\ cur.probe = "1" =>
                /\ HasTag(status', cur.i, {"Running"})
                /\ cur.i \notin Range(to_remove)
          /\ cur.probe = "0" =>
                /\ HasTag(status', cur.i, {"Success"})
                /\ cur.i \in Range(to_remove)

\* C2: for a Steam handle whose process exited with code 0, a pass whose
\* probe finds the title running writes Running and keeps the handle in the
\* active set, so that the next pass probes it again; a pass whose probe finds
\* it not running writes Success and removes the handle from the active set.
C2_SteamProbe == [][C2_ProbeStep /\ WaitStep /\ PassStep /\ RemoveStep]_vars

\* C2 witness: a Steam handle whose earlier pass wrote Running is found
\* exited with code 0 and not running in the registry: Success is about to be
\* written and the handle is listed for removal.
C2_Witness ==
    /\ mpc = "write"
    /\ cur.wait = Some(0)
    /\ cur.probe = "0"
    /\ active[cur.i].launcher = "Steam"
    /\ HasTag(status, cur.i, {"Running"})
    /\ cur.i \in Range(to_remove)

\* The write of a nonzero exit, and the changes an entry's status may make.
C3_ErrorStep ==
    /\ (mpc = "write" /\ mpc' # "write" /\ cur.wait # None /\ cur.wait # Some(0)) =>
          /\ cur.i \in DOMAIN status'
          /\ status'[cur.i] = Error(cur.wait[1])
          /\ cur.i \in Range(to_remove)
    /\ \A i \in DOMAIN status :
          /\ status[i].tag = "Error" =>
                (i \in DOMAIN status' /\ (status'[i] = status[i] \/ status'[i] = Starting))
          /\ (HasTag(status', i, {"Starting"}) /\ status[i].tag # "Starting") =>
                (fgpc = "act" /\ fgI = i)
          /\ (HasTag(status', i, {"Running"}) /\ status[i].tag # "Running") =>
                status[i].tag = "Starting"

\* C3: the pass that finds a process exited with a nonzero code writes
\* Error(code) and removes the handle at its end; an Error status changes only
\* to Starting, Starting is written only by act for that entry, and Running
\* is written only over Starting or Running.
C3_ErrorIsFinal == [][C3_ErrorStep /\ WaitStep /\ PassStep /\ RemoveStep]_vars

\* C3 witness: Error(3) has been written for an entry whose handle has left
\* the active set.
C3_Witness ==
    \E i \in Idx :
        /\ i \in DOMAIN status
        /\ status[i] = Error(3)
        /\ i \notin DOMAIN active
        /\ mpc = "recv"

\* The steps of act after launch() has returned Err.
C4_FailStep ==
    /\ (fgpc = "launch" /\ ~HasTarget(LaunchCatalog[fgI]) /\ fgpc' # fgpc) => fgpc' = "fail"
    /\ ((fgpc = "launch" /\ fgpc' = "fail") \/ (fgpc = "fail" /\ fgpc' # "fail")) =>
          /\ chan' = chan
          /\ active' = active
          /\ procs' = procs
          /\ DOMAIN status' = DOMAIN status
          /\ \A j \in DOMAIN status \ {fgI} : status'[j] = status[j]
    /\ (fgpc = "fail" /\ fgpc' # "fail") =>
          /\ HasTag(status, fgI, {"Starting"})
          /\ HasTag(status', fgI, {"FailedToLaunch"})
          /\ fgpc' = "idle"
    /\ \A i \in DOMAIN status :
          status[i].tag = "FailedToLaunch" =>
              (i \in DOMAIN status' /\ (status'[i] = status[i] \/ status'[i] = Starting))

\* C4: when launch() fails, for want of a target or because the OS refuses
\* the spawn, act writes FailedToLaunch for its entry; neither the failing
\* launch() nor that write sends on the channel, touches the active set or
\* changes the status of another entry, and the FailedToLaunch status stands
\* until an act of that entry writes Starting.
C4_FailedLaunch == [][C4_FailStep]_vars

\* C4 witness: FailedToLaunch stands for the entry with no launch target
\* while the handle of another entry is tracked with status Running.
C4_Witness ==
    /\ fgpc = "idle"
    /\ HasTag(status, 3, {"FailedToLaunch"})
    /\ status[3].reason = "Missing launch_url or command"
    /\ \E j \in DOMAIN active : HasTag(status, j, {"Running"})

\* The keys a step adds to the status map.
C9_CreateStep ==
    \A i \in (DOMAIN status') \ (DOMAIN status) : fgpc = "act" /\ fgI = i

\* C9: a status entry is created only by act(i), for its own i, at its
\* check: the monitor and an act of another index create none.
C9_NoEntryUnlessActivated == [][C9_CreateStep]_vars

\* C9 witness: the monitor has written Success for one entry and another
\* entry, never activated, has no status.
C9_Witness ==
    /\ \E i \in DOMAIN status : status[i].tag = "Success"
    /\ \E j \in Idx : j \notin DOMAIN status
    /\ mpc = "recv"

\* C10, as claimed: once the monitor has failed to query a handle's exit
\* status the foreground thread takes no further step.
C10_NoStepAfterQueryFailure == [][mpc = "panicked" => UNCHANGED fgVars]_vars

\* C11: the channel changes only by a send that appends one handle at its
\* tail, which act can always take, and by a receive that takes the oldest
\* handle and adds it, and nothing else, to active: no handle leaves the
\* channel without reaching active, and none is received twice or out of order.
C11_HandoffInOrder ==
    /\ [][\/ chan' = chan
          \/ /\ fgpc = "send"
             /\ \E child \in 1..Len(procs) :
                   chan' = Append(chan, <<fgI, Launched(child, games[fgI].launcher,
                                                        games[fgI].id)>>)
             /\ active' = active
          \/ /\ chan # <<>>
             /\ chan' = Tail(chan)
             /\ active' = Insert(active, Head(chan)[1], Head(chan)[2])]_vars
    /\ [](fgpc = "send" /\ alive => ENABLED Send)

\* C12: there is never more than one monitor thread and one channel.  None
\* exists while no act has passed its status check (at most the act that is
\* about to start it has); the thread and the channel are created by the
\* start_status_thread of an act, once, and every later act leaves them as
\* they are.
C12_OneMonitor ==
    /\ [](/\ threads <= 1
          /\ (threads = 0) = (mpc = "none")
          /\ (threads = 0) = (status_channel = "None")
          /\ threads = 0 =>
                \/ status = EmptyMap
                \/ fgpc = "start_thread" /\ DOMAIN status = {fgI})
    /\ [][/\ threads' # threads =>
                /\ fgpc = "start_thread" /\ fgpc' = "launch"
                /\ threads = 0 /\ threads' = 1
                /\ status_channel' = "Some"
          /\ status_channel = "Some" =>
                /\ status_channel' = "Some"
                /\ threads' = threads
                /\ (mpc = "none") = (mpc' = "none")]_vars

\* C12 witness: a second launch is about to send its handle, and the first
\* launch's monitor thread is the only one.
C12_Witness ==
    /\ fgpc = "send"
    /\ Len(procs) = 2
    /\ Cardinality(DOMAIN status) = 2
    /\ threads = 1
    /\ mpc # "panicked"

\* C13: the monitor holds the lock of status only at its insert statement,
\* never before or after a step that calls try_wait or the registry probe;
\* the foreground holds it only in the check of act, the insert of
\* FailedToLaunch and the read of draw_tile, never before or after a step
\* that starts the thread, spawns a process or sends a handle.  Every step
\* that writes status or reads it is taken by the thread that holds the lock.
C13_LockDiscipline ==
    /\ [](lock = "mon" => mpc = "write")
    /\ [](lock = "fg" => fgpc \in {"act", "fail", "draw"})
    /\ [][/\ (mpc = "poll" /\ mpc' \in {"write", "panicked"}) =>
                (lock # "mon" /\ lock' # "mon")
          /\ (fgpc \in {"start_thread", "launch", "send"} /\ fgpc' # fgpc) =>
                (lock # "fg" /\ lock' # "fg")
          /\ status' # status =>
                \/ lock = "fg" /\ fgpc' # fgpc /\ UNCHANGED monVars
                \/ lock = "mon" /\ mpc' # mpc /\ UNCHANGED fgVars
          /\ (fgpc \in {"act", "draw"} /\ fgpc' # fgpc) => lock = "fg"]_vars

\* C13 witness: the monitor has queried the exit of a child and computed its
\* status while the foreground holds the lock in draw_tile; it waits for the
\* lock with the status still unwritten.
C13_Witness ==
    /\ lock = "fg"
    /\ fgpc = "draw"
    /\ mpc = "write"
    /\ cur.wait # None
    /\ cur.i \in DOMAIN status /\ status[cur.i] # cur.st

\* A step of act that writes status: Starting at the check, or
\* FailedToLaunch after launch() returned Err, when there is no child and
\* nothing is sent to the monitor.
FgWriteStep ==
    /\ fgpc' # fgpc
    /\ UNCHANGED monVars
    /\ \/ fgpc = "act" /\ status' = Insert(status, fgI, Starting)
       \/ /\ fgpc = "fail"
          /\ ~result.ok /\ result.child = 0
          /\ result.err \in {"spawn", "Missing launch_url or command"}
          /\ status' = Insert(status, fgI, FailedToLaunch(result.err))
          /\ UNCHANGED <<chan, procs>>

\* The step of poll_active that writes status.
MonWriteStep ==
    /\ mpc = "write" /\ mpc' = "poll"
    /\ UNCHANGED fgVars
    /\ cur.st.tag \in {"Running", "Success", "Error"}
    /\ status' = Insert(status, cur.i, cur.st)

\* C16: status changes only by a write of act, which is Starting or
\* FailedToLaunch, or by a write of the monitor, which is Running, Success or
\* Error; FailedToLaunch is written only by act, after a launch() that
\* returned no child, in a step that sends nothing.
C16_WritersApart ==
    [][/\ status' # status => (FgWriteStep \/ MonWriteStep)
       /\ (mpc = "write" /\ mpc' # mpc) => MonWriteStep
       /\ \A i \in Idx :
             (HasTag(status', i, {"FailedToLaunch"}) /\ ~HasTag(status, i, {"FailedToLaunch"})) =>
                (fgpc = "fail" /\ fgI = i /\ lock = "fg" /\ ~result.ok)]_vars

\* C16 witness: the entry without a target is FailedToLaunch, written by
\* act, while the monitor has written Running for one launch and a final
\* status for the other.
C16_Witness ==
    /\ HasTag(status, 3, {"FailedToLaunch"})
    /\ HasTag(status, 1, {"Running"})
    /\ HasTag(status, 2, {"Success", "Error"})

\* C17: when the registry probe fails the status computed is Error(1) and the
\* entry is pushed on to_remove, with status and active untouched by that
\* step; the write that follows sets that entry to Error(1) and no other,
\* leaves active alone and returns to the iteration; and the end of the pass
\* removes from active the entries of to_remove and no other.
C17_ProbeFailure ==
    [][/\ (mpc = "poll" /\ mpc' = "write" /\ cur'.probe = "unreadable") =>
             /\ cur'.st = Error(1)
             /\ to_remove' = Append(to_remove, cur'.i)
             /\ UNCHANGED <<status, active, chan>>
       /\ (mpc = "write" /\ mpc' # mpc /\ cur.probe = "unreadable") =>
             /\ mpc' = "poll"
             /\ cur.i \in Range(to_remove)
             /\ status' = Insert(status, cur.i, Error(1))
             /\ \A j \in DOMAIN status \ {cur.i} : status'[j] = status[j]
             /\ UNCHANGED <<active, to_remove, chan>>
       /\ RemoveStep]_vars

\* C17 witness: the pass in which the probe of the Steam title failed is
\* over: its status is Error(1), it has left active, and the monitor is back
\* at try_recv with the other title still tracked as Running.
C17_Witness ==
    /\ mpc = "recv"
    /\ 1 \in DOMAIN status /\ status[1] = Error(1)
    /\ 1 \notin DOMAIN active
    /\ 2 \in DOMAIN active
    /\ HasTag(status, 2, {"Running"})

\* The status of a child that has exited, for a launcher other than Steam.
DirectStatus(code) == IF code = 0 THEN Success ELSE Error(code)

\* C18: try_wait's step calls the probe only for a Steam child that exited
\* with success.  A child of any other launcher that has exited gets Success
\* for a successful exit and Error(code) otherwise, with no probe, and is
\* pushed on to_remove; that status is the one written, and the entry is
\* removed at the end of the pass.
C18_ProbeOnlySteam ==
    /\ [](\A l \in {"Twitch", "Epic", "Unknown"}, code \in ExitCodes, reg \in RegistryStates :
            /\ ExitedStatus(l, code, reg) = [probe |-> "", st |-> DirectStatus(code)]
            /\ PushRemove(to_remove, 1, DirectStatus(code)) = Append(to_remove, 1))
    /\ [][/\ (mpc = "poll" /\ mpc' = "write" /\ cur'.probe # "") =>
                (active[cur'.i].launcher = "Steam" /\ cur'.wait = Some(0))
          /\ (mpc = "poll" /\ mpc' = "write" /\ cur'.wait # None
                 /\ active[cur'.i].launcher # "Steam") =>
                /\ cur'.probe = ""
                /\ cur'.st = DirectStatus(cur'.wait[1])
                /\ to_remove' = Append(to_remove, cur'.i)
          /\ (mpc = "write" /\ mpc' # mpc /\ cur.wait # None
                 /\ active[cur.i].launcher # "Steam") =>
                /\ status' = Insert(status, cur.i, DirectStatus(cur.wait[1]))
                /\ cur.i \in Range(to_remove)
          /\ RemoveStep]_vars

\* C18 witness: the Epic child has exited with success and its status,
\* Success, was computed without a probe and is about to be written.
C18_Witness ==
    /\ mpc = "write"
    /\ active[cur.i].launcher = "Epic"
    /\ cur.wait = Some(0)
    /\ cur.probe = ""
    /\ cur.st = Success
    /\ cur.i \in Range(to_remove)

\* C20: the monitor writes Success or Error for a handle only over the
\* status Running, which an earlier poll wrote for that handle.
C20_RunningBeforeFinal ==
    [][(mpc = "write" /\ mpc' # mpc /\ cur.st.tag \in {"Success", "Error"}) =>
          HasTag(status, cur.i, {"Running"})]_vars

\* C20 as the code has it: the monitor writes a handle's status only over
\* Starting or Running.  It writes Running when try_wait finds the process
\* still running, and Success or Error only when try_wait reports the exit,
\* be it on the first poll after the handoff, over Starting.
C20_FinalOverStartingOrRunning ==
    [][(mpc = "write" /\ mpc' # mpc) =>
          /\ HasTag(status, cur.i, {"Starting", "Running"})
          /\ status' = Insert(status, cur.i, cur.st)
          /\ cur.wait = None => cur.st = Running
          /\ cur.st.tag \in {"Success", "Error"} => cur.wait # None]_vars

\* C20 witness: on the first poll after the handoff the process has already
\* exited: a final status is about to be written over Starting.
C20_Witness ==
    /\ mpc = "write"
    /\ lock = "mon"
    /\ cur.st.tag \in {"Success", "Error"}
    /\ HasTag(status, cur.i, {"Starting"})

\* C21: when the monitor finds that the child of a Steam launch has exited
\* with success while the entry is still Starting, so that no probe can have
\* run for that launch, it writes Success without having called the probe.
C21_SuccessBeforeProbe ==
    [][(mpc = "write" /\ mpc' # mpc /\ active[cur.i].launcher = "Steam"
          /\ cur.wait = Some(0) /\ HasTag(status, cur.i, {"Starting"})) =>
            (cur.probe = "" /\ HasTag(status', cur.i, {"Success"}))]_vars

\* C21 as the code has it: the probe is called in the pass that finds the
\* Steam child exited, before the status is written, and Success is written
\* only when the probe found the title not running.  No step takes an entry
\* from Success to Running: an entry leaves Success only by an act that
\* writes Starting for it.
C21_ProbeBeforeSuccess ==
    [][/\ (mpc = "write" /\ mpc' # mpc /\ active[cur.i].launcher = "Steam"
             /\ cur.wait = Some(0)) =>
            /\ cur.probe \in RegistryStates
            /\ HasTag(status', cur.i, {"Success"}) <=> cur.probe = "0"
            /\ HasTag(status', cur.i, {"Running"}) <=> cur.probe = "1"
       /\ \A i \in Idx :
             (HasTag(status, i, {"Success"}) /\ status'[i] # status[i]) =>
                (fgpc = "act" /\ fgI = i /\ status'[i] = Starting /\ UNCHANGED monVars)]_vars

\* C21 witness: the first poll of a Steam launch finds the child exited with
\* success and the entry Starting; the probe has run and found the title
\* running, and Running, not Success, is about to be written.
C21_Witness ==
    /\ mpc = "write"
    /\ lock = "mon"
    /\ active[cur.i].launcher = "Steam"
    /\ cur.wait = Some(0)
    /\ HasTag(status, cur.i, {"Starting"})
    /\ cur.probe = "1"
    /\ cur.st = Running

\* The process of the handle tracked for entry i has not exited.
TrackedRunning(i) == i \in DOMAIN active /\ procs[active[i].child].state = "running"

\* C22: on every pass, for a tracked process that try_wait finds running the
\* monitor computes Running and does not list the handle for removal, writes
\* Running for the entry, and leaves the handle in active at the end of the
\* pass.  No step of the monitor changes a process, and the check of an act
\* for such an entry returns having done nothing.
C22_NoTimeout ==
    [][/\ (mpc = "poll" /\ mpc' = "write" /\ TrackedRunning(cur'.i)) =>
             /\ cur'.wait = None /\ cur'.st = Running
             /\ UNCHANGED <<to_remove, active, status>>
       /\ (mpc = "write" /\ mpc' # mpc /\ cur.wait = None) =>
             /\ status' = Insert(status, cur.i, Running)
             /\ UNCHANGED <<to_remove, active>>
       /\ (mpc = "poll" /\ mpc' = "recv") =>
             \A i \in DOMAIN active :
                TrackedRunning(i) =>
                    /\ HasTag(status, i, {"Running"})
                    /\ i \in DOMAIN active' /\ active'[i] = active[i]
       /\ procs' # procs => UNCHANGED <<monVars, status>>
       /\ \A i \in DOMAIN active :
             (status'[i] # status[i] /\ HasTag(status', i, {"Success", "Error"})) =>
                ~TrackedRunning(i)
       /\ (fgpc = "act" /\ fgpc' # fgpc /\ TrackedRunning(fgI)) =>
             /\ fgpc' = "idle"
             /\ UNCHANGED <<status, chan, procs, monVars, threads>>]_vars

\* C22 witness: a later pass finds the process still running, with Running
\* already written by an earlier pass and about to be written again, while
\* an act for the same entry is at its check.
C22_Witness ==
    /\ mpc = "write"
    /\ lock = "mon"
    /\ cur.wait = None
    /\ HasTag(status, cur.i, {"Running"})
    /\ TrackedRunning(cur.i)
    /\ fgpc = "act"
    /\ fgI = cur.i

\* The handles of entry i waiting in the channel.
Pending(i) == {n \in 1..Len(chan) : chan[n][1] = i}

\* A handle waiting in the channel, and a handle in active when a pass
\* starts, belong to an entry that is Starting or Running.
TrackedIsBusy ==
    /\ \A i \in Idx : Pending(i) # {} => HasTag(status, i, {"Starting", "Running"})
    /\ (mpc = "poll" /\ iter = DOMAIN active /\ to_remove = <<>>) =>
          \A i \in DOMAIN active : HasTag(status, i, {"Starting", "Running"})

\* The monitor inserts a received handle under a key active does not hold.
RecvFreshKey ==
    (mpc = "recv" /\ chan # <<>> /\ chan' = Tail(chan)) => Head(chan)[1] \notin DOMAIN active

\* C24: a handle waiting in the channel, or in active at the start of a pass,
\* belongs to an entry that is Starting or Running; an entry never has more
\* than one handle between the channel and active; and a received handle is
\* inserted under a key that active does not hold.
C24_OneHandlePerEntry ==
    /\ [](TrackedIsBusy)
    /\ [](\A i \in Idx :
            Cardinality(Pending(i)) + (IF i \in DOMAIN active THEN 1 ELSE 0) <= 1)
    /\ [][RecvFreshKey]_vars

\* C24 as the code has it: the same, except that the handle of a launch that
\* is over (its final status written in the pass under way, its key on
\* to_remove) stays in active to the end of that pass, and the handle of a
\* new launch of the entry can be waiting in the channel meanwhile.  An entry
\* has at most one handle in the channel, and the pass is over, the old
\* handle removed, before the new one is received.
C24_OneLiveHandlePerEntry ==
    /\ [](TrackedIsBusy)
    /\ [](\A i \in Idx :
            /\ Cardinality(Pending(i)) <= 1
            /\ (Pending(i) # {} /\ i \in DOMAIN active) =>
                  /\ mpc \in {"poll", "write"}
                  /\ i \in Range(to_remove)
                  /\ i \notin iter
                  /\ procs[active[i].child].state = "exited")
    /\ [][RecvFreshKey]_vars

\* C24 witness: the launch of an entry is over and its handle is still in
\* active, listed for removal, while the handle of a new launch of the same
\* entry waits in the channel.
C24_Witness ==
    \E i \in Idx :
        /\ Pending(i) # {}
        /\ i \in DOMAIN active
        /\ i \in Range(to_remove)
        /\ status[i] = Starting
        /\ \A n \in Pending(i) : chan[n][2].child # active[i].child

\* The processes spawned so far for entry i, oldest first by number.
SpawnedFor(i) ==
    IF HasTarget(games[i])
    THEN {p \in 1..Len(procs) : procs[p].command = LaunchCommand(games[i])}
    ELSE {}

\* C25: every write of the monitor to the status of an entry comes from the
\* handle of the entry's latest launch: the child of the handle is the last
\* process spawned for the entry, no act for the entry is past its check
\* (a newer launch under way), and no newer handle of the entry waits in the
\* channel.
C25_NoStaleWrite ==
    [][(mpc = "write" /\ mpc' # mpc) =>
          /\ status' = Insert(status, cur.i, cur.st)
          /\ active[cur.i].child \in SpawnedFor(cur.i)
          /\ \A p \in SpawnedFor(cur.i) : p <= active[cur.i].child
          /\ ~(fgI = cur.i /\ fgpc \in {"start_thread", "launch", "send", "fail"})
          /\ Pending(cur.i) = {}]_vars

\* C25 witness: an entry was launched, finished and launched again; the
\* monitor is about to write a status computed from the handle of the second
\* launch.
C25_Witness ==
    /\ mpc = "write"
    /\ lock = "mon"
    /\ Cardinality(SpawnedFor(cur.i)) = 2
    /\ \E p \in SpawnedFor(cur.i) : p < active[cur.i].child

(***************************************************************************)
(* The launch engine under fair scheduling.  The monitor thread is a loop  *)
(* with a sleep (486-502): each of its steps is taken when it stays        *)
(* possible.  The Mutex is handed to a thread that keeps asking for it     *)
(* (strong fairness of the lock steps), and a call of act or draw_tile     *)
(* runs to its end.  A spawned process exits in the end, and the registry  *)
(* does not report a Steam title running for ever.  Nothing obliges the    *)
(* foreground to call act or to draw: activations may stop.                *)
(***************************************************************************)
\* A poll of entry i that finds its handle over: try_wait reports the exit
\* and, for a Steam title, the probe does not report it running.
SettlingPoll(i) == PollWait(i) /\ cur'.st.tag # "Running"

MonitorFairness ==
    /\ WF_vars(Recv)
    /\ WF_vars(RecvEmpty)
    /\ \A i \in 1..Len(LaunchCatalog) : WF_vars(PollWait(i) \/ PollWaitErr(i))
    /\ \A i \in 1..Len(LaunchCatalog) : SF_vars(SettlingPoll(i) \/ PollWaitErr(i))
    /\ SF_vars(PollLock)
    /\ WF_vars(PollWrite)
    /\ WF_vars(PollRemove)

ForegroundFairness ==
    /\ SF_vars(ActLock)
    /\ WF_vars(ActCheck)
    /\ WF_vars(StartStatusThread)
    /\ WF_vars(LaunchOk \/ LaunchErr)
    /\ WF_vars(Send)
    /\ SF_vars(FailLock)
    /\ WF_vars(FailWrite)
    /\ WF_vars(DrawRead)

ProcessFairness == WF_vars(\E p \in 1..MaxProcs, code \in ExitCodes : ProcExit(p, code))

FairSpec == Init /\ [][Next]_vars /\ MonitorFairness /\ ForegroundFairness /\ ProcessFairness

\* The handle of process p waits in the channel.
HandedOff(p) == \E n \in 1..Len(chan) : chan[n][2].child = p

\* The handle of process p waits in the channel or sits in active.
Tracked(p) == HandedOff(p) \/ \E i \in DOMAIN active : active[i].child = p

\* C26: under fair scheduling, whenever a handle of an entry waits in the
\* channel, the entry later shows a final status, Success or Error, and the
\* handle later is in neither the channel nor active: no entry stays
\* Starting for ever once its handle was sent.
C26_EventuallyResolved ==
    /\ \A i \in Idx : [](Pending(i) # {} => <>HasTag(status, i, {"Success", "Error"}))
    /\ \A p \in 1..MaxProcs : [](HandedOff(p) => <>~Tracked(p))

(***************************************************************************)
(* The merge on its own: a catalog, then one call of merge_with as main    *)
(* makes it (main.rs 822, 827, 830): doorways.games =                      *)
(* doorways.games.merge_with(other).                                       *)
(***************************************************************************)
MergeInit ==
    /\ games \in SeqsUpTo(ExistingGames, MaxExisting)
    /\ mself = <<>>
    /\ other = <<>>
    /\ mergepc = "init"
    /\ LaunchIdle
    /\ MainIdle

MergeCall(oth) ==
    /\ mergepc = "init"
    /\ mself' = games
    /\ other' = oth
    /\ games' = merge_with(games, oth)
    /\ mergepc' = "merged"
    /\ UNCHANGED <<launchVars, mainVars>>

MergeNext == \E oth \in SeqsUpTo(IncomingGames, MaxIncoming) : MergeCall(oth)

MergeSpec == MergeInit /\ [][MergeNext]_vars

(***************************************************************************)
(* Properties of merge_with, checked under MergeSpec: mself and other are  *)
(* the arguments of the call and games its result.                         *)
(***************************************************************************)
Merged == mergepc = "merged"
Matches(k) == {n \in 1..Len(other) : other[n].id = mself[k].id}
MaxOf(S) == CHOOSE n \in S : \A m \in S : m <= n

\* C5: the entry at the position of every existing entry keeps its kids and
\* hidden values, whatever the incoming records hold.
C5_UserFieldsKept ==
    Merged =>
        /\ Len(games) >= Len(mself)
        /\ \A k \in 1..Len(mself) :
              games[k].kids = mself[k].kids /\ games[k].hidden = mself[k].hidden

\* C5 witness: an existing entry was overwritten from an incoming record of
\* the same id whose kids and hidden values both differ from its own.
C5_Witness ==
    /\ Merged
    /\ \E k \in 1..Len(mself) : \E n \in Matches(k) :
          /\ other[n].kids # mself[k].kids
          /\ other[n].hidden # mself[k].hidden
          /\ mself[k].kids = Some(TRUE)
          /\ games[k].title # mself[k].title

\* The scenario of the specification.
ScenarioExisting == <<MkGame("a", SteamData("Old"), KidsYes)>>
ScenarioIncoming ==
    <<MkGame("a", EpicData("New"), Fresh), MkGame("b", TwitchData("Brand New"), Fresh)>>
ScenarioMerged ==
    <<MkGame("a", EpicData("New"), KidsYes), MkGame("b", TwitchData("Brand New"), Fresh)>>

\* C6: an existing entry whose id some incoming record has takes its title,
\* image reference, installed flag, launch descriptor and launcher from the
\* last incoming record of that id; an existing entry no incoming record
\* matches is unchanged; and the scenario merges as stated.
C6_SourceFieldsReplaced ==
    Merged =>
        /\ Len(games) >= Len(mself)
        /\ \A k \in 1..Len(mself) :
              IF Matches(k) = {}
              THEN games[k] = mself[k]
              ELSE LET o == other[MaxOf(Matches(k))] IN
                     /\ games[k].id = mself[k].id
                     /\ games[k].title = o.title
                     /\ games[k].image_src = o.image_src
                     /\ games[k].installed = o.installed
                     /\ games[k].install_directory = o.install_directory
                     /\ games[k].working_subdir_override = o.working_subdir_override
                     /\ games[k].command = o.command
                     /\ games[k].args = o.args
                     /\ games[k].launch_url = o.launch_url
                     /\ games[k].launcher = o.launcher
        /\ (mself = ScenarioExisting /\ other = ScenarioIncoming) => games = ScenarioMerged

\* C6 witness: the scenario has been merged.
C6_Witness ==
    /\ Merged
    /\ mself = ScenarioExisting
    /\ other = ScenarioIncoming
    /\ games = ScenarioMerged
    /\ games[1].kids = Some(TRUE)
    /\ games[2].kids = None

\* C7: the result is the existing entries, at their positions, followed by
\* the incoming records whose id no existing entry has, in incoming order.
C7_AppendUnmatched ==
    Merged =>
        /\ Len(games) >= Len(mself)
        /\ \A k \in 1..Len(mself) : games[k].id = mself[k].id
        /\ SubSeq(games, Len(mself) + 1, Len(games))
              = SelectSeq(other, LAMBDA o : \A k \in 1..Len(mself) : mself[k].id # o.id)

\* C7 witness: of three incoming records the one with an existing id was
\* not appended and the two others, different records, were.
C7_Witness ==
    /\ Merged
    /\ Len(mself) >= 1
    /\ Len(other) = 3
    /\ Len(games) = Len(mself) + 2
    /\ games[Len(mself) + 1] # games[Len(mself) + 2]
    /\ \E n \in 1..2 : \E k \in 1..Len(mself) : other[n].id = mself[k].id

\* C8: merging an empty incoming sequence leaves the catalog as it was.
C8_EmptyIncoming == (Merged /\ other = <<>>) => games = mself

\* C8 witness: a catalog of two entries merged with the empty sequence.
C8_Witness == Merged /\ other = <<>> /\ Len(mself) = 2 /\ Len(games) = 2

(***************************************************************************)
(* main (main.rs 768-926): load or create the catalog, refresh it from the *)
(* providers when --refresh is given, and run the grid for the launcher    *)
(* subcommand.  What happens inside grid.run is the launch engine above.   *)
(***************************************************************************)
MaxDisk == 2
MaxProvider == 2

\* The titles in use, in the order of str::cmp (byte order).
TitleOrder == <<"Brand New", "New", "Old">>
TitleRank(t) == CHOOSE n \in 1..Len(TitleOrder) : TitleOrder[n] = t
IsSorted(gs) ==
    \A k \in 1..(Len(gs) - 1) : TitleRank(gs[k].title) <= TitleRank(gs[k + 1].title)

Reorderings(gs) ==
    {[k \in 1..Len(gs) |-> gs[f[k]]] :
        f \in {f \in [1..Len(gs) -> 1..Len(gs)] :
                 \A x, y \in 1..Len(gs) : x # y => f[x] # f[y]}}

\* Doorways::sort (381-386) on games: sort_unstable_by the title, so records
\* of one title end in any order.  (It also clears images: see MainStart.)
sort(gs) == {r \in Reorderings(gs) : IsSorted(r)}

\* Lines 341-344: the file an image is read from.  download_img (77-99)
\* names the file after the last segment of the url.
ImagePath(src) == IF src[1] = "Url" THEN "images/i.png" ELSE src[2]

\* load_imgs (339-379) on games: image_path is set for every game, and a game
\* whose image cannot be decoded (those at the positions `bad`) is hidden.
load_imgs(gs, bad) ==
    [k \in 1..Len(gs) |->
        IF k \in bad
        THEN [gs[k] EXCEPT !.image_path = Some(ImagePath(gs[k].image_src)),
                           !.hidden = Some(TRUE)]
        ELSE [gs[k] EXCEPT !.image_path = Some(ImagePath(gs[k].image_src))]]

\* ... and what it pushes on images (356, 376).
PushedImages(gs, bad) ==
    [k \in 1..Len(gs) |-> IF k \in bad THEN None ELSE Some(gs[k].id)]

\* games.json as earlier runs and the user's edits left it.
DiskGames ==
    {MkGame("a", SteamData("Old"), KidsYes),
     MkGame("b", EpicData("New"), KidsNoHidden),
     MkGame("b", TwitchData("Brand New"), Reset)}

\* What the providers' files yield: from_steam, from_twitch and from_epic
\* (145-215) write the user fields as in Fresh.
SteamOutcomes ==
    {Failed} \cup {Loaded(l) :
        l \in SeqsUpTo({MkGame(id, SteamData("Old"), Fresh) : id \in Ids}, MaxProvider)}
TwitchOutcomes ==
    {Failed} \cup {Loaded(l) :
        l \in SeqsUpTo({MkGame("a", TwitchData("Brand New"), Fresh)}, MaxProvider)}
EpicOutcomes ==
    {Failed} \cup {Loaded(l) :
        l \in SeqsUpTo({MkGame("b", EpicData("New"), Fresh)}, MaxProvider)}

MainInit ==
    /\ games = <<>>
    /\ mself = <<>>
    /\ other = <<>>
    /\ mergepc = "init"
    /\ LaunchIdle
    /\ disk \in {None} \cup {Some(c) : c \in SeqsUpTo(DiskGames, MaxDisk)}
    /\ matches \in [refresh : BOOLEAN, launcher : BOOLEAN]
    /\ sources \in IF matches.refresh
                   THEN [Steam : SteamOutcomes, Twitch : TwitchOutcomes, Epic : EpicOutcomes]
                   ELSE {NoSources}
    /\ mainpc = "start"
    /\ images = <<>>

\* Lines 807-811: Doorways::new when there is no games.json, else
\* Doorways::load (302-310), which sorts the catalog read.
MainStart ==
    /\ mainpc = "start"
    /\ IF disk = None
       THEN games' = <<>>
       ELSE games' \in sort(disk[1])
    /\ images' = <<>>
    /\ mainpc' = "refresh"
    /\ UNCHANGED <<mergeVars, launchVars, disk, sources, matches>>

\* Lines 812-817: with --refresh, hidden is reset on every game.
MainRefresh ==
    /\ mainpc = "refresh"
    /\ IF matches.refresh
       THEN /\ games' = [k \in 1..Len(games) |-> [games[k] EXCEPT !.hidden = None]]
            /\ mainpc' = "steam"
       ELSE /\ mainpc' = "launcher"
            /\ UNCHANGED games
    /\ UNCHANGED <<mergeVars, launchVars, disk, sources, matches, images>>

\* Lines 818-822 (Steam), 823-827 (Twitch), 828-830 (Epic): the provider's
\* load; on Err the `?` returns the error from main, else the games are
\* merged in.
MainMerge(pc, provider, nextpc) ==
    /\ mainpc = pc
    /\ IF sources[provider].ok
       THEN /\ mself' = games
            /\ other' = sources[provider].games
            /\ games' = merge_with(games, sources[provider].games)
            /\ mergepc' = "merged"
            /\ mainpc' = nextpc
       ELSE /\ mainpc' = "failed"
            /\ UNCHANGED <<games, mergeVars>>
    /\ UNCHANGED <<launchVars, disk, sources, matches, images>>

\* Lines 833-854: without the launcher subcommand main is over (list and
\* launch change nothing); with it load_imgs reads every game's image.
MainLauncher ==
    /\ mainpc = "launcher"
    /\ IF matches.launcher
       THEN \E bad \in SUBSET (1..Len(games)) :
              /\ games' = load_imgs(games, bad)
              /\ images' = images \o PushedImages(games, bad)
              /\ mainpc' = "grid"
       ELSE /\ mainpc' = "done"
            /\ UNCHANGED <<games, images>>
    /\ UNCHANGED <<mergeVars, launchVars, disk, sources, matches>>

\* Lines 896-899: grid.run shows the catalog until the window is closed, and
\* the catalog is saved.
MainGrid ==
    /\ mainpc = "grid"
    /\ disk' = Some(games)
    /\ mainpc' = "done"
    /\ UNCHANGED <<games, mergeVars, launchVars, sources, matches, images>>

MainNext ==
    \/ MainStart
    \/ MainRefresh
    \/ MainMerge("steam", "Steam", "twitch")
    \/ MainMerge("twitch", "Twitch", "epic")
    \/ MainMerge("epic", "Epic", "launcher")
    \/ MainLauncher
    \/ MainGrid

MainSpec == MainInit /\ [][MainNext]_vars

(***************************************************************************)
(* Properties of main, checked under MainSpec.                             *)
(***************************************************************************)
Providers == {"Steam", "Twitch", "Epic"}
IdsOf(gs) == {gs[k].id : k \in 1..Len(gs)}

\* C14: once a refresh is over, however it ended, the catalog holds an entry
\* for every game of every provider whose load succeeds.
C14_ProviderFailureIsolated ==
    (matches.refresh /\ mainpc \in {"launcher", "grid", "done", "failed"}) =>
        \A p \in Providers : sources[p].ok => IdsOf(sources[p].games) \subseteq IdsOf(games)

\* C15: whenever the grid is shown the catalog is in non-decreasing title
\* order, and the step that sorts the catalog leaves images empty.
C15_SortedAtDisplay ==
    /\ [](mainpc = "grid" => IsSorted(games))
    /\ [][(mainpc = "start" /\ mainpc' # "start" /\ disk # None) =>
             (games' \in sort(disk[1]) /\ images' = <<>>)]_vars

UniqueIds(gs) == \A j, k \in 1..Len(gs) : j # k => gs[j].id # gs[k].id

\* C19: when the catalog read from games.json has pairwise distinct ids and
\* so has the list of every provider, the catalog has pairwise distinct ids
\* at every point of main, before and after each of the three merges.
C19_IdsStayUnique ==
    ((disk = None \/ UniqueIds(disk[1])) /\ \A p \in Providers : UniqueIds(sources[p].games))
        => UniqueIds(games)

\* C19 witness: a catalog of one game has been merged with Steam's two games,
\* Twitch's one and Epic's one, all lists with distinct ids and the sources
\* sharing ids between them; the merged catalog has two games.
C19_Witness ==
    /\ mainpc = "launcher"
    /\ mergepc = "merged"
    /\ disk # None /\ Len(disk[1]) = 1
    /\ \A p \in Providers : sources[p].ok /\ UniqueIds(sources[p].games)
    /\ Len(sources.Steam.games) = 2
    /\ Len(sources.Twitch.games) = 1
    /\ Len(sources.Epic.games) = 1
    /\ Len(games) = 2
    /\ UniqueIds(games)

\* main is in the refresh or has finished it, and has not yet called load_imgs.
InRefresh == matches.refresh /\ mainpc \in {"steam", "twitch", "epic", "launcher", "failed"}

\* C23: during and after a refresh every entry of the catalog read from
\* games.json is in the catalog with the kids and hidden values it had there.
C23_RefreshKeepsUserFields ==
    (InRefresh /\ disk # None) =>
        \A k \in 1..Len(disk[1]) : \E j \in 1..Len(games) :
            /\ games[j].id = disk[1][k].id
            /\ games[j].kids = disk[1][k].kids
            /\ games[j].hidden = disk[1][k].hidden

\* C23 as the code has it: during and after a refresh every entry of the
\* catalog read from games.json is in the catalog with the kids and players
\* values it had there, and with hidden reset to None; the entries the
\* providers added carry the provider's hidden, Some(false).
C23_RefreshKeepsKidsResetsHidden ==
    (InRefresh /\ disk # None) =>
        /\ \A k \in 1..Len(disk[1]) : \E j \in 1..Len(disk[1]) :
              /\ games[j].id = disk[1][k].id
              /\ games[j].kids = disk[1][k].kids
              /\ games[j].players = disk[1][k].players
              /\ games[j].hidden = None
        /\ \A j \in (Len(disk[1]) + 1)..Len(games) : games[j].hidden = Some(FALSE)

\* C23 witness: a refresh is over; an entry that games.json held as hidden,
\* with kids set to false, was matched by a provider, which replaced its
\* title: its kids is kept and its hidden is None.
C23_Witness ==
    /\ InRefresh /\ mainpc = "launcher" /\ disk # None
    /\ \E k \in 1..Len(disk[1]) : \E j \in 1..Len(disk[1]) :
          /\ disk[1][k].hidden = Some(TRUE)
          /\ disk[1][k].kids = Some(FALSE)
          /\ games[j].id = disk[1][k].id
          /\ games[j].kids = Some(FALSE)
          /\ games[j].hidden = None
          /\ games[j].title # disk[1][k].title

(***************************************************************************)
(* merge_with applied a second time to its own result, checked under       *)
(* MergeSpec.                                                              *)
(***************************************************************************)
\* C27: when the ids of the incoming records are pairwise distinct, merging
\* the same records into the result of the merge gives that result again:
\* nothing is appended and no field changes.
C27_MergeIdempotent ==
    (Merged /\ UniqueIds(other)) => merge_with(games, other) = games

C27_Witness ==
    /\ Merged
    /\ UniqueIds(other)
    /\ Len(other) = 2
    /\ Len(games) = Len(mself) + 1
    /\ \E k \in 1..Len(mself) : Matches(k) # {} /\ games[k] # mself[k]
    /\ merge_with(games, other) = games

====
